---- MODULE Spec2Model ----
(***************************************************************************)
(* Event-driven backtester: the event queue, the scheduling loop of        *)
(* Backtest._run_backtest, the historic CSV data handler and the           *)
(* PortfolioHFT ledger.                                                    *)
(*                                                                         *)
(* Money is kept in mills (1/1000 USD) so that the commission rate of      *)
(* .005 USD per share is the integer 5.  Python's None is the record       *)
(* NoneEvent when it travels through the queue and the empty set when it   *)
(* is the optional commission argument of FillEvent.  Every queue item     *)
(* carries the field id, its object identity: the number of the put that   *)
(* placed it on the queue.                                                 *)
(***************************************************************************)
EXTENDS Integers, Sequences, FiniteSets, TLC

\* ---------------------------------------------------------------- bounds
MaxBars == 2
MaxSignals == 2
ScenarioBars == 3
MaxQuantity == 300
MaxCurveLen == 4
MaxCount == 3
MacBars == 4
MaxCalls == 3

\* ------------------------------------------------------ run configuration
symbol_list == <<"SPY", "QQQ">>
Symbols == {symbol_list[i] : i \in 1..Len(symbol_list)}
InitialCapital == 100000000
StartDate == 0
MktQuantity == 100
CommissionPerShare == 5
MinCommission == 1000

\* the close columns the CSV files may hold: per price path, the close of
\* each symbol on its i-th row
PricePaths == {"flat", "moving"}
Close(path, symbol, i) ==
    IF symbol = symbol_list[1]
    THEN IF path = "flat" THEN 10000 ELSE 10000 + 1000 * (i % 3)
    ELSE IF path = "flat" THEN 20000 ELSE 20000 - 500 * (i % 2)

\* input sets the collaborators draw from
SignalTypes == {"LONG", "SHORT", "EXIT"}
Strengths == {1, 2}
FillCosts == {0, 999000}
ExplicitCommissions == {2500}

BarTime(i) == StartDate + i

\* ------------------------------------------------------------ event model
NoneEvent == [type |-> "NONE", id |-> 0]

MarketEvent == [type |-> "MARKET", id |-> 0]

SignalEvent(strategy_id, symbol, datetime, signal_type, strength) ==
    [type |-> "SIGNAL", id |-> 0, strategy_id |-> strategy_id,
     symbol |-> symbol, datetime |-> datetime, signal_type |-> signal_type,
     strength |-> strength]

OrderEvent(symbol, order_type, quantity, direction) ==
    [type |-> "ORDER", id |-> 0, symbol |-> symbol, order_type |-> order_type,
     quantity |-> quantity, direction |-> direction]

\* mutant: the per-share rate is charged with no minimum
calculate_commission_NoMinimum(quantity) == quantity * CommissionPerShare

\* mutant: the minimum is added to the per-share charge below the threshold
calculate_commission_MinimumAdded(quantity) ==
    IF quantity * CommissionPerShare > MinCommission
    THEN quantity * CommissionPerShare
    ELSE quantity * CommissionPerShare + MinCommission

calculate_commission(quantity) ==
    IF quantity * CommissionPerShare > MinCommission
    THEN quantity * CommissionPerShare
    ELSE MinCommission

\* commission is {} for None, {c} for an explicit value c
FillEvent(timeindex, symbol, exchange, quantity, direction, fill_cost, commission) ==
    [type |-> "FILL", id |-> 0, timeindex |-> timeindex, symbol |-> symbol,
     exchange |-> exchange, quantity |-> quantity, direction |-> direction,
     fill_cost |-> fill_cost,
     commission |-> IF commission = {}
                    THEN calculate_commission(quantity)
                    ELSE CHOOSE c \in commission : TRUE]

\* ------------------------------------------------------------ event queue
\* queue.Queue: put appends at the tail, get(False) takes the head
QueuePut(q, ev, id) == Append(q, [ev EXCEPT !.id = id])

\* mutant: get takes the item put last
QueueGetLifo(q) == [item |-> q[Len(q)], rest |-> SubSeq(q, 1, Len(q) - 1)]

QueueGet(q) == [item |-> Head(q), rest |-> Tail(q)]

\* ------------------------------------------------------------- data feed
\* a bar is one row of the reindexed frame: its index value and its close
Bar(datetime, close) == [datetime |-> datetime, close |-> close]

get_latest_bar_datetime(lsd, symbol) == lsd[symbol][Len(lsd[symbol])].datetime

\* bars_list[start:] of Python: a start below 0 counts from the end and is
\* clamped at the first item, a start of 0 or more counts from the front
PySliceFrom(bars_list, start) ==
    LET n == Len(bars_list)
        lo == IF start < 0
              THEN (IF n + start < 0 THEN 0 ELSE n + start)
              ELSE (IF start > n THEN n ELSE start)
    IN SubSeq(bars_list, lo + 1, n)

get_latest_bars(lsd, symbol, N) == PySliceFrom(lsd[symbol], -N)

get_latest_bars_values(lsd, symbol, val_type, N) ==
    LET bars_list == get_latest_bars(lsd, symbol, N)
    IN [i \in DOMAIN bars_list |-> bars_list[i][val_type]]

get_latest_bar_value(lsd, symbol, val_type) == lsd[symbol][Len(lsd[symbol])][val_type]

RECURSIVE update_bars_loop(_, _, _, _)
update_bars_loop(i, sd, lsd, cont) ==
    IF i > Len(symbol_list)
    THEN [symbol_data |-> sd, latest_symbol_data |-> lsd, continue_backtest |-> cont]
    ELSE LET symbol == symbol_list[i] IN
         IF sd[symbol] = <<>>
         THEN update_bars_loop(i + 1, sd, lsd, FALSE)
         ELSE update_bars_loop(i + 1,
                               [sd EXCEPT ![symbol] = Tail(@)],
                               [lsd EXCEPT ![symbol] = Append(@, Head(sd[symbol]))],
                               cont)

\* mutant: the MarketEvent is put inside the loop over the symbols
update_bars_PutPerSymbol(sd, lsd, cont, q, id) ==
    LET r == update_bars_loop(1, sd, lsd, cont) IN
    [symbol_data |-> r.symbol_data,
     latest_symbol_data |-> r.latest_symbol_data,
     continue_backtest |-> r.continue_backtest,
     events |-> QueuePut(QueuePut(q, MarketEvent, id), MarketEvent, id + 1),
     nextId |-> id + 2]

update_bars(sd, lsd, cont, q, id) ==
    LET r == update_bars_loop(1, sd, lsd, cont) IN
    [symbol_data |-> r.symbol_data,
     latest_symbol_data |-> r.latest_symbol_data,
     continue_backtest |-> r.continue_backtest,
     events |-> QueuePut(q, MarketEvent, id),
     nextId |-> id + 1]

\* ------------------------------------------------------- portfolio ledger
ZeroPerSymbol == [s \in Symbols |-> 0]

construct_all_positions == << [datetime |-> StartDate, pos |-> ZeroPerSymbol] >>

construct_all_holdings ==
    << [datetime |-> StartDate, val |-> ZeroPerSymbol, cash |-> InitialCapital,
        commission |-> 0, total |-> InitialCapital] >>

construct_current_holdings ==
    [val |-> ZeroPerSymbol, cash |-> InitialCapital, commission |-> 0,
     total |-> InitialCapital]

RECURSIVE MarketValueTotal(_, _, _, _)
MarketValueTotal(i, total, cp, lsd) ==
    IF i > Len(symbol_list)
    THEN total
    ELSE MarketValueTotal(i + 1,
             total + cp[symbol_list[i]] * get_latest_bar_value(lsd, symbol_list[i], "close"),
             cp, lsd)

PositionsSnapshot(latest_datetime, cp) ==
    [datetime |-> latest_datetime, pos |-> [s \in Symbols |-> cp[s]]]

\* mutant: the market values are never added to the total
HoldingsSnapshot_TotalIsCash(latest_datetime, ch, cp, lsd) ==
    [datetime |-> latest_datetime,
     cash |-> ch.cash,
     commission |-> ch.commission,
     val |-> [s \in Symbols |-> cp[s] * get_latest_bar_value(lsd, s, "close")],
     total |-> ch.cash]

HoldingsSnapshot(latest_datetime, ch, cp, lsd) ==
    [datetime |-> latest_datetime,
     cash |-> ch.cash,
     commission |-> ch.commission,
     val |-> [s \in Symbols |-> cp[s] * get_latest_bar_value(lsd, s, "close")],
     total |-> MarketValueTotal(1, ch.cash, cp, lsd)]

\* mutant: the positions snapshot is built but never appended
update_timeindex_NoPositions(pf, lsd) ==
    IF lsd[symbol_list[1]] = <<>>
    THEN [pf |-> pf, raised |-> TRUE]
    ELSE LET latest_datetime == get_latest_bar_datetime(lsd, symbol_list[1])
         IN [pf |-> [pf EXCEPT !.all_holdings =
                                   Append(@, HoldingsSnapshot(latest_datetime,
                                                              pf.current_holdings,
                                                              pf.current_positions,
                                                              lsd))],
             raised |-> FALSE]

\* mutant: marking the bar also books the marked total into the cash
update_timeindex_BooksCash(pf, lsd) ==
    IF \E s \in Symbols : lsd[s] = <<>>
    THEN [pf |-> pf, raised |-> TRUE]
    ELSE LET latest_datetime == get_latest_bar_datetime(lsd, symbol_list[1])
             dh == HoldingsSnapshot(latest_datetime, pf.current_holdings,
                                    pf.current_positions, lsd)
         IN [pf |-> [pf EXCEPT !.all_positions =
                                   Append(@, PositionsSnapshot(latest_datetime,
                                                               pf.current_positions)),
                               !.all_holdings = Append(@, dh),
                               !.current_holdings.cash = dh.total],
             raised |-> FALSE]

\* mutant: a bar already marked is marked over: the last snapshots are
\* replaced when they carry the datetime of the latest bar
update_timeindex_ReplacesLast(pf, lsd) ==
    IF \E s \in Symbols : lsd[s] = <<>>
    THEN [pf |-> pf, raised |-> TRUE]
    ELSE LET latest_datetime == get_latest_bar_datetime(lsd, symbol_list[1])
             dp == PositionsSnapshot(latest_datetime, pf.current_positions)
             dh == HoldingsSnapshot(latest_datetime, pf.current_holdings,
                                    pf.current_positions, lsd)
             n == Len(pf.all_holdings)
         IN IF pf.all_holdings[n].datetime = latest_datetime
            THEN [pf |-> [pf EXCEPT !.all_positions[n] = dp,
                                    !.all_holdings[n] = dh],
                  raised |-> FALSE]
            ELSE [pf |-> [pf EXCEPT !.all_positions = Append(@, dp),
                                    !.all_holdings = Append(@, dh)],
                  raised |-> FALSE]

\* pf is the ledger [all_positions, current_positions, all_holdings,
\* current_holdings]; raised is TRUE when a bar lookup hits an empty list
\* (IndexError), with the ledger as it stands at the raise
update_timeindex(pf, lsd) ==
    IF lsd[symbol_list[1]] = <<>>
    THEN [pf |-> pf, raised |-> TRUE]
    ELSE LET latest_datetime == get_latest_bar_datetime(lsd, symbol_list[1])
             ap == Append(pf.all_positions,
                          PositionsSnapshot(latest_datetime, pf.current_positions))
         IN IF \E s \in Symbols : lsd[s] = <<>>
            THEN [pf |-> [pf EXCEPT !.all_positions = ap], raised |-> TRUE]
            ELSE [pf |-> [pf EXCEPT !.all_positions = ap,
                                    !.all_holdings =
                                        Append(@, HoldingsSnapshot(latest_datetime,
                                                                   pf.current_holdings,
                                                                   pf.current_positions,
                                                                   lsd))],
                  raised |-> FALSE]

FillDir(direction) ==
    IF direction = "SELL" THEN -1 ELSE IF direction = "BUY" THEN 1 ELSE 0

\* mutant: the direction of the fill is ignored
update_positions_from_fill_Unsigned(cp, fill) ==
    [cp EXCEPT ![fill.symbol] = @ + fill.quantity]

update_positions_from_fill(cp, fill) ==
    [cp EXCEPT ![fill.symbol] = @ + FillDir(fill.direction) * fill.quantity]

\* mutant: the fill's own cost is charged instead of the market estimate
update_holdings_from_fill_UsesFillCost(ch, fill, lsd) ==
    LET cost == FillDir(fill.direction) * fill.fill_cost
    IN [val |-> [ch.val EXCEPT ![fill.symbol] = @ + cost],
        commission |-> ch.commission + fill.commission,
        cash |-> ch.cash - (cost + fill.commission),
        total |-> ch.total - (cost + fill.commission)]

\* mutant: a sale is charged like a purchase
update_holdings_from_fill_SaleCharged(ch, fill, lsd) ==
    LET fill_cost == get_latest_bar_value(lsd, fill.symbol, "close")
        cost == fill_cost * fill.quantity
    IN [val |-> [ch.val EXCEPT ![fill.symbol] = @ + cost],
        commission |-> ch.commission + fill.commission,
        cash |-> ch.cash - (cost + fill.commission),
        total |-> ch.total - (cost + fill.commission)]

\* mutant: the commission is recorded but not taken from the cash
update_holdings_from_fill_CommissionNotCharged(ch, fill, lsd) ==
    LET fill_cost == get_latest_bar_value(lsd, fill.symbol, "close")
        cost == FillDir(fill.direction) * fill_cost * fill.quantity
    IN [val |-> [ch.val EXCEPT ![fill.symbol] = @ + cost],
        commission |-> ch.commission + fill.commission,
        cash |-> ch.cash - cost,
        total |-> ch.total - cost]

update_holdings_from_fill(ch, fill, lsd) ==
    LET fill_cost == get_latest_bar_value(lsd, fill.symbol, "close")
        cost == FillDir(fill.direction) * fill_cost * fill.quantity
    IN [val |-> [ch.val EXCEPT ![fill.symbol] = @ + cost],
        commission |-> ch.commission + fill.commission,
        cash |-> ch.cash - (cost + fill.commission),
        total |-> ch.total - (cost + fill.commission)]

\* mutant: the fixed quantity is scaled by the strength of the signal
generate_naive_order_Scaled(cp, signal) ==
    LET symbol == signal.symbol
        direction == signal.signal_type
        mkt_quantity == MktQuantity * signal.strength
        cur_quantity == cp[symbol]
        Abs(x) == IF x < 0 THEN -x ELSE x
    IN IF direction = "LONG" /\ cur_quantity = 0
       THEN OrderEvent(symbol, "MKT", mkt_quantity, "BUY")
       ELSE IF direction = "SHORT" /\ cur_quantity = 0
       THEN OrderEvent(symbol, "MKT", mkt_quantity, "SELL")
       ELSE IF direction = "EXIT" /\ cur_quantity > 0
       THEN OrderEvent(symbol, "MKT", Abs(cur_quantity), "SELL")
       ELSE IF direction = "EXIT" /\ cur_quantity < 0
       THEN OrderEvent(symbol, "MKT", Abs(cur_quantity), "BUY")
       ELSE NoneEvent

\* mutant: LONG and SHORT are sized without a look at the position held
generate_naive_order_Unguarded(cp, signal) ==
    LET symbol == signal.symbol
        direction == signal.signal_type
        mkt_quantity == MktQuantity
        cur_quantity == cp[symbol]
        Abs(x) == IF x < 0 THEN -x ELSE x
    IN IF direction = "LONG"
       THEN OrderEvent(symbol, "MKT", mkt_quantity, "BUY")
       ELSE IF direction = "SHORT"
       THEN OrderEvent(symbol, "MKT", mkt_quantity, "SELL")
       ELSE IF direction = "EXIT" /\ cur_quantity > 0
       THEN OrderEvent(symbol, "MKT", Abs(cur_quantity), "SELL")
       ELSE IF direction = "EXIT" /\ cur_quantity < 0
       THEN OrderEvent(symbol, "MKT", Abs(cur_quantity), "BUY")
       ELSE NoneEvent

generate_naive_order(cp, signal) ==
    LET symbol == signal.symbol
        direction == signal.signal_type
        strength == signal.strength
        mkt_quantity == MktQuantity
        cur_quantity == cp[symbol]
        order_type == "MKT"
        Abs(x) == IF x < 0 THEN -x ELSE x
    IN IF direction = "LONG" /\ cur_quantity = 0
       THEN OrderEvent(symbol, order_type, mkt_quantity, "BUY")
       ELSE IF direction = "SHORT" /\ cur_quantity = 0
       THEN OrderEvent(symbol, order_type, mkt_quantity, "SELL")
       ELSE IF direction = "EXIT" /\ cur_quantity > 0
       THEN OrderEvent(symbol, order_type, Abs(cur_quantity), "SELL")
       ELSE IF direction = "EXIT" /\ cur_quantity < 0
       THEN OrderEvent(symbol, order_type, Abs(cur_quantity), "BUY")
       ELSE NoneEvent

\* update_signal puts whatever generate_naive_order returned, None included
update_signal(cp, q, signal, id) ==
    IF signal.type = "SIGNAL"
    THEN QueuePut(q, generate_naive_order(cp, signal), id)
    ELSE q

\* ---------------------------------------------------------- equity curve
\* a float is the exact fraction num/den in lowest terms with den > 0;
\* NaN has den = 0
RECURSIVE Gcd(_, _)
Gcd(a, b) == IF b = 0 THEN a ELSE Gcd(b, a % b)

NaN == [num |-> 0, den |-> 0]

IsNaN(x) == x.den = 0

Rat(n, d) ==
    IF d = 0 THEN NaN
    ELSE LET an == IF n < 0 THEN -n ELSE n
             ad == IF d < 0 THEN -d ELSE d
             g == Gcd(an, ad)
             sign == IF (n < 0) = (d < 0) THEN 1 ELSE -1
         IN [num |-> sign * (an \div g), den |-> ad \div g]

One == Rat(1, 1)

RatAdd(x, y) ==
    IF IsNaN(x) \/ IsNaN(y) THEN NaN
    ELSE Rat(x.num * y.den + y.num * x.den, x.den * y.den)

\* the factors are divided by their common divisors before they are
\* multiplied, so the product stays in range
RatMul(x, y) ==
    IF IsNaN(x) \/ IsNaN(y) THEN NaN
    ELSE LET a == Rat(x.num, y.den)
             b == Rat(y.num, x.den)
         IN Rat(a.num * b.num, a.den * b.den)

\* Series.pct_change: no value for the first row, x[i] / x[i-1] - 1 after
pct_change(x) ==
    [i \in DOMAIN x |->
        IF i = 1 THEN NaN ELSE RatAdd(Rat(x[i], x[i - 1]), Rat(-1, 1))]

\* Series.cumprod (skipna): a NaN row stays NaN and is left out of the
\* running product
RECURSIVE cumprod_loop(_, _, _, _)
cumprod_loop(x, i, acc, out) ==
    IF i > Len(x) THEN out
    ELSE IF IsNaN(x[i])
         THEN cumprod_loop(x, i + 1, acc, Append(out, NaN))
         ELSE LET p == RatMul(acc, x[i])
              IN cumprod_loop(x, i + 1, p, Append(out, p))

cumprod(x) == cumprod_loop(x, 1, One, <<>>)

\* the frame, one row per entry of all_holdings, with the two new columns
create_equity_curve_dataframe(ah) ==
    LET total == [i \in DOMAIN ah |-> ah[i].total]
        returns == pct_change(total)
        curve == cumprod([i \in DOMAIN returns |-> RatAdd(One, returns[i])])
    IN [i \in DOMAIN ah |->
           [datetime |-> ah[i].datetime, total |-> total[i],
            returns |-> returns[i], equity_curve |-> curve[i]]]

\* ------------------------------------------------------------- drawdowns
Zero == Rat(0, 1)

\* the fractions are brought to the least common denominator
RatSub(x, y) ==
    IF IsNaN(x) \/ IsNaN(y) THEN NaN
    ELSE LET g == Gcd(x.den, y.den)
         IN Rat(x.num * (y.den \div g) - y.num * (x.den \div g),
                (x.den \div g) * y.den)

\* a comparison with NaN is false
RatLess(x, y) ==
    IF IsNaN(x) \/ IsNaN(y) THEN FALSE
    ELSE LET g == Gcd(x.den, y.den)
         IN x.num * (y.den \div g) < y.num * (x.den \div g)

\* the builtin max(a, b): b when b > a, else a
PyMax(a, b) == IF RatLess(a, b) THEN b ELSE a

\* Series.max (skipna): the largest value that is not NaN, NaN if none is
RECURSIVE SeriesMax_loop(_, _, _)
SeriesMax_loop(x, i, best) ==
    IF i > Len(x) THEN best
    ELSE IF IsNaN(x[i]) THEN SeriesMax_loop(x, i + 1, best)
    ELSE IF IsNaN(best) THEN SeriesMax_loop(x, i + 1, x[i])
    ELSE SeriesMax_loop(x, i + 1, PyMax(best, x[i]))

SeriesMax(x) == SeriesMax_loop(x, 1, NaN)

\* the loop of create_drawdowns from position t (Python's t is t - 1): hwm
\* starts as [0], drawdown and duration as series of NaN
RECURSIVE create_drawdowns_loop(_, _, _, _, _)
create_drawdowns_loop(pnl, t, hwm, drawdown, duration) ==
    IF t > Len(pnl)
    THEN [hwm |-> hwm, drawdown |-> drawdown, duration |-> duration]
    ELSE LET h == PyMax(hwm[t - 1], pnl[t])
             dd == RatSub(h, pnl[t])
             dur == IF dd = Zero THEN Zero ELSE RatAdd(duration[t - 1], One)
         IN create_drawdowns_loop(pnl, t + 1, Append(hwm, h),
                                  [drawdown EXCEPT ![t] = dd],
                                  [duration EXCEPT ![t] = dur])

\* the three values returned, with the locals hwm and duration as they
\* stand at the return
create_drawdowns(pnl) ==
    LET r == create_drawdowns_loop(pnl, 2, << Zero >>,
                                   [i \in DOMAIN pnl |-> NaN],
                                   [i \in DOMAIN pnl |-> NaN])
    IN [drawdown |-> r.drawdown,
        max_dd |-> SeriesMax(r.drawdown),
        dd_duration |-> SeriesMax(r.duration),
        hwm |-> r.hwm,
        duration |-> r.duration]

\* output_summary_stats: the frame gets the drawdown column (the statistics
\* themselves are only printed)
output_summary_stats(curve) ==
    LET pnl == [i \in DOMAIN curve |-> curve[i].equity_curve]
        drawdown == create_drawdowns(pnl).drawdown
    IN [i \in DOMAIN curve |->
           [datetime |-> curve[i].datetime, total |-> curve[i].total,
            returns |-> curve[i].returns, equity_curve |-> curve[i].equity_curve,
            drawdown |-> drawdown[i]]]

\* -------------------------------------------------- execution simulator
\* execute_order puts one FillEvent for the order: same symbol, quantity
\* and direction; fill_cost and the optional commission are the simulator's
execute_order(q, order, fill_cost, commission, id) ==
    IF order.type = "ORDER"
    THEN QueuePut(q, FillEvent(0, order.symbol, "ARCA", order.quantity,
                               order.direction, fill_cost, commission), id)
    ELSE q

\* ------------------------------------------------------ signal generator
\* calculate_signals of an arbitrary strategy: it puts the signals it
\* decided on, in order, and touches nothing else
SignalChoices ==
    {SignalEvent(1, s, 0, t, st) : s \in Symbols, t \in SignalTypes, st \in Strengths}

SignalSeqs(n) == UNION {[1..k -> SignalChoices] : k \in 0..n}

RECURSIVE PutAll(_, _, _)
PutAll(q, evs, id) ==
    IF evs = <<>> THEN q
    ELSE PutAll(QueuePut(q, Head(evs), id), Tail(evs), id + 1)

\* ------------------------------------------------------- the strategies
\* the windows MovingAverageCrossStrategy is constructed with (the defaults
\* are 5 and 20), small enough for the feeds to reach the long one
short_window == 1
long_window == 3

calculate_initial_bought == [s \in Symbols |-> "OUT"]

RECURSIVE SeqSum(_)
SeqSum(x) == IF x = <<>> THEN 0 ELSE Head(x) + SeqSum(Tail(x))

\* np.mean(a) > np.mean(b); the mean of an empty array is nan, which
\* compares False with everything
MeanGreater(a, b) ==
    /\ a # <<>>
    /\ b # <<>>
    /\ SeqSum(a) * Len(b) > SeqSum(b) * Len(a)

\* the body of the loop of calculate_signals for the symbols from index i
\* on; st is [signals, bought, raised]: the SignalEvents put so far, the
\* flags, and whether get_latest_bar_datetime hit an empty list
RECURSIVE mac_calculate_signals_loop(_, _, _)
mac_calculate_signals_loop(lsd, i, st) ==
    IF i > Len(symbol_list) THEN st
    ELSE LET s == symbol_list[i]
             bars == get_latest_bars_values(lsd, s, "close", long_window)
         IN IF lsd[s] = <<>>
            THEN [st EXCEPT !.raised = TRUE]
            ELSE LET short == PySliceFrom(bars, -short_window)
                     long == PySliceFrom(bars, -long_window)
                 IN IF MeanGreater(short, long) /\ st.bought[s] = "OUT"
                    THEN mac_calculate_signals_loop(lsd, i + 1,
                            [st EXCEPT !.signals = Append(@, SignalEvent(1, s, 0, "LONG", 1)),
                                       !.bought[s] = "LONG"])
                    ELSE IF MeanGreater(long, short) /\ st.bought[s] = "LONG"
                    THEN mac_calculate_signals_loop(lsd, i + 1,
                            [st EXCEPT !.signals = Append(@, SignalEvent(1, s, 0, "EXIT", 1)),
                                       !.bought[s] = "OUT"])
                    ELSE mac_calculate_signals_loop(lsd, i + 1, st)

\* IntradayOLSMRStrategy: the pair, and the thresholds in tenths
pair == <<"SPY", "QQQ">>
zscore_low == 5
zscore_high == 30

Abs(x) == IF x < 0 THEN -x ELSE x

\* the four tests of calculate_xy_signals in the order of the code, each
\* on the flags and signals as the tests before it left them; hr is
\* abs(hedge_ratio)
calculate_xy_signals(lm, sm, zscore_last, hr) ==
    LET p0 == pair[1]
        p1 == pair[2]
        dt == 0
        s0 == [long_market |-> lm, short_market |-> sm,
               y_signal |-> NoneEvent, x_signal |-> NoneEvent]
        s1 == IF zscore_last <= -zscore_high /\ ~s0.long_market
              THEN [s0 EXCEPT !.long_market = TRUE,
                              !.y_signal = SignalEvent(1, p0, dt, "LONG", 1),
                              !.x_signal = SignalEvent(1, p1, dt, "SHORT", hr)]
              ELSE s0
        s2 == IF Abs(zscore_last) <= zscore_low /\ s1.long_market
              THEN [s1 EXCEPT !.long_market = FALSE,
                              !.y_signal = SignalEvent(1, p0, dt, "EXIT", 1),
                              !.x_signal = SignalEvent(1, p1, dt, "EXIT", 1)]
              ELSE s1
        s3 == IF zscore_last >= zscore_high /\ ~s2.short_market
              THEN [s2 EXCEPT !.short_market = TRUE,
                              !.y_signal = SignalEvent(1, p0, dt, "SHORT", 1),
                              !.x_signal = SignalEvent(1, p1, dt, "LONG", hr)]
              ELSE s2
        s4 == IF Abs(zscore_last) <= zscore_low /\ s3.short_market
              THEN [s3 EXCEPT !.short_market = FALSE,
                              !.y_signal = SignalEvent(1, p0, dt, "EXIT", 1),
                              !.x_signal = SignalEvent(1, p1, dt, "EXIT", 1)]
              ELSE s3
    IN s4

\* mutant: the flags the loop sets are not kept
mac_calculate_signals_FlagsNotKept(lsd, b) ==
    LET st == mac_calculate_signals_loop(lsd, 1, [signals |-> <<>>, bought |-> b,
                                                  raised |-> FALSE])
    IN [st EXCEPT !.bought = b]

mac_calculate_signals(lsd, b) ==
    mac_calculate_signals_loop(lsd, 1, [signals |-> <<>>, bought |-> b, raised |-> FALSE])

\* ---------------------------------------------------------------- state
VARIABLES
    pc,                   \* where _run_backtest / simulate_trading stands
    events,               \* Backtest.events, the queue
    nextId,               \* number of puts so far, plus one
    signals, orders, fills,
    symbol_data,          \* the rows each symbol's iterator still holds
    latest_symbol_data,
    continue_backtest,
    all_positions, current_positions, all_holdings, current_holdings,
    equity_curve,         \* Portfolio.equity_curve, <<>> until it is created
    trace,                \* the collaborator calls made so far, in order
    args, result,         \* a direct call of one function: its arguments
                          \* and what it returned (<<>> in a run of the loop)
    bought,               \* MovingAverageCrossStrategy.bought
    long_market,          \* IntradayOLSMRStrategy.long_market
    short_market          \* IntradayOLSMRStrategy.short_market

vars == <<pc, events, nextId, signals, orders, fills, symbol_data,
          latest_symbol_data, continue_backtest, all_positions,
          current_positions, all_holdings, current_holdings, equity_curve,
          trace, args, result,
          bought, long_market, short_market>>

feed == <<symbol_data, latest_symbol_data, continue_backtest>>
counters == <<signals, orders, fills>>
ledger == <<all_positions, current_positions, all_holdings, current_holdings>>
direct == <<args, result>>
strategy == <<bought, long_market, short_market>>

Call(op, ev) == [op |-> op, id |-> ev.id]

\* the frames of all symbols share the first symbol's index, so every
\* symbol has the same number of rows with the same datetimes
Feeds ==
    {[s \in Symbols |-> [i \in 1..n |-> Bar(BarTime(i), Close(path, s, i))]] :
        path \in PricePaths, n \in 0..MaxBars}

Init ==
    /\ pc = "advance"
    /\ events = <<>>
    /\ nextId = 1
    /\ signals = 0 /\ orders = 0 /\ fills = 0
    /\ symbol_data \in Feeds
    /\ latest_symbol_data = [s \in Symbols |-> <<>>]
    /\ continue_backtest = TRUE
    /\ all_positions = construct_all_positions
    /\ current_positions = ZeroPerSymbol
    /\ all_holdings = construct_all_holdings
    /\ current_holdings = construct_current_holdings
    /\ equity_curve = <<>>
    /\ trace = <<>>
    /\ bought = calculate_initial_bought
    /\ long_market = FALSE
    /\ short_market = FALSE
    /\ args = <<>>
    /\ result = <<>>

\* outer loop: update the bars, or leave the loop
Advance ==
    /\ pc = "advance"
    /\ continue_backtest
    /\ LET r == update_bars(symbol_data, latest_symbol_data, continue_backtest,
                            events, nextId)
       IN /\ symbol_data' = r.symbol_data
          /\ latest_symbol_data' = r.latest_symbol_data
          /\ continue_backtest' = r.continue_backtest
          /\ events' = r.events
          /\ nextId' = r.nextId
    /\ trace' = Append(trace, [op |-> "update_bars", id |-> 0])
    /\ pc' = "drain"
    /\ UNCHANGED <<counters, ledger, equity_curve, direct, strategy>>

\* mutant: continue_backtest is also tested inside the inner loop
Halt_InsideDrain ==
    /\ pc \in {"advance", "drain"}
    /\ ~continue_backtest
    /\ pc' = "halted"
    /\ UNCHANGED <<events, nextId, counters, feed, ledger, equity_curve, trace, direct, strategy>>

Halt ==
    /\ pc = "advance"
    /\ ~continue_backtest
    /\ pc' = "halted"
    /\ UNCHANGED <<events, nextId, counters, feed, ledger, equity_curve, trace, direct, strategy>>

\* inner loop, queue.Empty: sleep for the heartbeat, next outer iteration
DrainEmpty ==
    /\ pc = "drain"
    /\ events = <<>>
    /\ pc' = "advance"
    /\ UNCHANGED <<events, nextId, counters, feed, ledger, equity_curve, trace, direct, strategy>>

\* no handler call of the loop sits in a try block: an exception raised
\* by a handler leaves _run_backtest and simulate_trading
dispatch_outcome_Swallowed(raised) == "drain"

dispatch_outcome(raised) == IF raised THEN "aborted" ELSE "drain"

\* the ledger as one record, for update_timeindex
Ledger ==
    [all_positions |-> all_positions, current_positions |-> current_positions,
     all_holdings |-> all_holdings, current_holdings |-> current_holdings]

\* mutant: the ledger is marked before the strategy sees the bar
dispatch_market_calls_Swapped(ev) ==
    << Call("update_timeindex", ev), Call("calculate_signals", ev) >>

dispatch_market_calls(ev) ==
    << Call("calculate_signals", ev), Call("update_timeindex", ev) >>

\* the inner loop takes a MarketEvent from the queue
MarketTaken ==
    /\ pc = "drain"
    /\ events # <<>>
    /\ QueueGet(events).item.type = "MARKET"

\* the MARKET branch, sigs being what this calculate_signals puts
dispatch_market(sigs) ==
    /\ LET ev == QueueGet(events).item
           r == update_timeindex(Ledger, latest_symbol_data)
       IN /\ events' = PutAll(QueueGet(events).rest, sigs, nextId)
          /\ nextId' = nextId + Len(sigs)
          /\ all_positions' = r.pf.all_positions
          /\ current_positions' = r.pf.current_positions
          /\ all_holdings' = r.pf.all_holdings
          /\ current_holdings' = r.pf.current_holdings
          /\ trace' = trace \o dispatch_market_calls(ev)
          /\ pc' = dispatch_outcome(r.raised)
    /\ UNCHANGED <<counters, feed, equity_curve, direct, strategy>>

DispatchMarket ==
    /\ MarketTaken
    /\ \E sigs \in SignalSeqs(MaxSignals - signals) : dispatch_market(sigs)

DispatchSignal ==
    /\ pc = "drain"
    /\ events # <<>>
    /\ QueueGet(events).item.type = "SIGNAL"
    /\ LET ev == QueueGet(events).item
       IN /\ signals' = signals + 1
          /\ events' = update_signal(current_positions, QueueGet(events).rest, ev, nextId)
          /\ nextId' = nextId + 1
          /\ trace' = Append(trace, Call("update_signal", ev))
    /\ UNCHANGED <<pc, orders, fills, feed, ledger, equity_curve, direct, strategy>>

\* mutant: the ORDER branch does not count the order
DispatchOrder_NotCounted ==
    /\ pc = "drain"
    /\ events # <<>>
    /\ QueueGet(events).item.type = "ORDER"
    /\ \E fill_cost \in FillCosts, commission \in {{}} \cup {{c} : c \in ExplicitCommissions} :
          LET ev == QueueGet(events).item
          IN /\ events' = execute_order(QueueGet(events).rest, ev, fill_cost, commission, nextId)
             /\ nextId' = nextId + 1
             /\ trace' = Append(trace, Call("execute_order", ev))
    /\ UNCHANGED <<pc, signals, orders, fills, feed, ledger, equity_curve, direct, strategy>>

DispatchOrder ==
    /\ pc = "drain"
    /\ events # <<>>
    /\ QueueGet(events).item.type = "ORDER"
    /\ \E fill_cost \in FillCosts, commission \in {{}} \cup {{c} : c \in ExplicitCommissions} :
          LET ev == QueueGet(events).item
          IN /\ orders' = orders + 1
             /\ events' = execute_order(QueueGet(events).rest, ev, fill_cost, commission, nextId)
             /\ nextId' = nextId + 1
             /\ trace' = Append(trace, Call("execute_order", ev))
    /\ UNCHANGED <<pc, signals, fills, feed, ledger, equity_curve, direct, strategy>>

DispatchFill ==
    /\ pc = "drain"
    /\ events # <<>>
    /\ QueueGet(events).item.type = "FILL"
    /\ LET ev == QueueGet(events).item
       IN /\ fills' = fills + 1
          /\ events' = QueueGet(events).rest
          /\ trace' = Append(trace, Call("update_fill", ev))
          /\ current_positions' = update_positions_from_fill(current_positions, ev)
          /\ pc' = dispatch_outcome(latest_symbol_data[ev.symbol] = <<>>)
          /\ IF latest_symbol_data[ev.symbol] = <<>>
             THEN UNCHANGED current_holdings
             ELSE current_holdings' =
                        update_holdings_from_fill(current_holdings, ev, latest_symbol_data)
    /\ UNCHANGED <<nextId, signals, orders, feed, all_positions, all_holdings,
                   equity_curve, direct, strategy>>

\* "if event is not None": a None taken from the queue is passed over
DispatchNone ==
    /\ pc = "drain"
    /\ events # <<>>
    /\ QueueGet(events).item.type = "NONE"
    /\ events' = QueueGet(events).rest
    /\ UNCHANGED <<pc, nextId, counters, feed, ledger, equity_curve, trace, direct, strategy>>

\* simulate_trading: _output_performance follows _run_backtest
OutputPerformance ==
    /\ pc = "halted"
    /\ equity_curve' = output_summary_stats(create_equity_curve_dataframe(all_holdings))
    /\ pc' = "reported"
    /\ UNCHANGED <<events, nextId, counters, feed, ledger, trace, direct, strategy>>

Next ==
    \/ Advance
    \/ Halt
    \/ DrainEmpty
    \/ DispatchMarket
    \/ DispatchSignal
    \/ DispatchOrder
    \/ DispatchFill
    \/ DispatchNone
    \/ OutputPerformance

Spec == Init /\ [][Next]_vars

\* "if event is not None" followed by an if / elif chain with no else: an
\* event whose type is none of the four is taken and nothing is done
DispatchOther ==
    /\ pc = "drain"
    /\ events # <<>>
    /\ QueueGet(events).item.type \notin {"NONE", "MARKET", "SIGNAL", "ORDER", "FILL"}
    /\ events' = QueueGet(events).rest
    /\ UNCHANGED <<pc, nextId, counters, feed, ledger, equity_curve, trace, direct, strategy>>

\* ---------------------------- a strategy that puts events of another type
OtherEvent == [type |-> "OTHER", id |-> 0]

StrayChoices ==
    {OtherEvent} \cup {SignalEvent(1, symbol_list[1], 0, t, 1) : t \in {"LONG", "EXIT"}}

StraySeqs(n) == UNION {[1..k -> StrayChoices] : k \in 0..n}

DispatchMarketStray ==
    /\ MarketTaken
    /\ \E evs \in StraySeqs(MaxSignals - signals) : dispatch_market(evs)

NextStray ==
    \/ Advance
    \/ Halt
    \/ DrainEmpty
    \/ DispatchMarketStray
    \/ DispatchSignal
    \/ DispatchOrder
    \/ DispatchFill
    \/ DispatchNone
    \/ DispatchOther
    \/ OutputPerformance

SpecStray == Init /\ [][NextStray]_vars

\* ------------------------------------------- a strategy that only goes long
\* calculate_signals of a strategy whose every signal is a LONG for the
\* first symbol
LongChoices ==
    {SignalEvent(1, symbol_list[1], 0, "LONG", st) : st \in Strengths}

LongSeqs(n) == UNION {[1..k -> LongChoices] : k \in 0..n}

DispatchMarketLongs ==
    /\ MarketTaken
    /\ \E sigs \in LongSeqs(MaxSignals - signals) : dispatch_market(sigs)

NextLongs ==
    \/ Advance
    \/ Halt
    \/ DrainEmpty
    \/ DispatchMarketLongs
    \/ DispatchSignal
    \/ DispatchOrder
    \/ DispatchFill
    \/ DispatchNone
    \/ OutputPerformance

SpecLongs == Init /\ [][NextLongs]_vars

\* ------------------------------ the loop with MovingAverageCrossStrategy
\* feeds of up to MacBars bars: the first symbol closes at either of two
\* levels on each bar, the second stays flat or rises bar after bar
MacCloses == {10000, 12000}

MacFeeds ==
    UNION {{[s \in Symbols |->
               [i \in 1..n |->
                   Bar(BarTime(i),
                       IF s = symbol_list[1] THEN c[i]
                       ELSE IF rising THEN 20000 + 500 * i ELSE 20000)]] :
              c \in [1..n -> MacCloses], rising \in BOOLEAN} :
           n \in 0..MacBars}

InitMAC ==
    /\ pc = "advance"
    /\ events = <<>>
    /\ nextId = 1
    /\ signals = 0 /\ orders = 0 /\ fills = 0
    /\ symbol_data \in MacFeeds
    /\ latest_symbol_data = [s \in Symbols |-> <<>>]
    /\ continue_backtest = TRUE
    /\ all_positions = construct_all_positions
    /\ current_positions = ZeroPerSymbol
    /\ all_holdings = construct_all_holdings
    /\ current_holdings = construct_current_holdings
    /\ equity_curve = <<>>
    /\ trace = <<>>
    /\ bought = calculate_initial_bought
    /\ long_market = FALSE
    /\ short_market = FALSE
    /\ args = <<>>
    /\ result = <<>>

\* the MARKET branch: calculate_signals of the strategy, then
\* update_timeindex unless the strategy raised
DispatchMarketMAC ==
    /\ MarketTaken
    /\ LET ev == QueueGet(events).item
           st == mac_calculate_signals(latest_symbol_data, bought)
           r == update_timeindex(Ledger, latest_symbol_data)
       IN /\ events' = PutAll(QueueGet(events).rest, st.signals, nextId)
          /\ nextId' = nextId + Len(st.signals)
          /\ bought' = st.bought
          /\ IF st.raised
             THEN /\ trace' = Append(trace, Call("calculate_signals", ev))
                  /\ pc' = dispatch_outcome(TRUE)
                  /\ UNCHANGED ledger
             ELSE /\ trace' = trace \o dispatch_market_calls(ev)
                  /\ pc' = dispatch_outcome(r.raised)
                  /\ all_positions' = r.pf.all_positions
                  /\ current_positions' = r.pf.current_positions
                  /\ all_holdings' = r.pf.all_holdings
                  /\ current_holdings' = r.pf.current_holdings
    /\ UNCHANGED <<counters, feed, equity_curve, direct, long_market, short_market>>

NextMAC ==
    \/ Advance
    \/ Halt
    \/ DrainEmpty
    \/ DispatchMarketMAC
    \/ DispatchSignal
    \/ DispatchOrder
    \/ DispatchFill
    \/ OutputPerformance

SpecMAC == InitMAC /\ [][NextMAC]_vars

\* ------------------------ an execution handler that breaks the contract
\* FillEvent.__init__ stores any direction it is given; this handler fills
\* an order with the order's direction or with one that is neither BUY nor
\* SELL
MalformedDirections == {"HOLD"}

DispatchOrderMalformed ==
    /\ pc = "drain"
    /\ events # <<>>
    /\ QueueGet(events).item.type = "ORDER"
    /\ \E fill_cost \in FillCosts, commission \in {{}} \cup {{c} : c \in ExplicitCommissions} :
          LET ev == QueueGet(events).item
          IN \E direction \in {ev.direction} \cup MalformedDirections :
                /\ orders' = orders + 1
                /\ events' = QueuePut(QueueGet(events).rest,
                                      FillEvent(0, ev.symbol, "ARCA", ev.quantity,
                                                direction, fill_cost, commission),
                                      nextId)
                /\ nextId' = nextId + 1
                /\ trace' = Append(trace, Call("execute_order", ev))
    /\ UNCHANGED <<pc, signals, fills, feed, ledger, equity_curve, direct, strategy>>

NextMalformed ==
    \/ Advance
    \/ Halt
    \/ DrainEmpty
    \/ DispatchMarket
    \/ DispatchSignal
    \/ DispatchOrderMalformed
    \/ DispatchFill
    \/ DispatchNone
    \/ OutputPerformance

SpecMalformed == Init /\ [][NextMalformed]_vars

\* ------------------------------ a strategy that enters once and then exits
\* calculate_signals of a strategy that puts one LONG or SHORT for the
\* first symbol, alone, and from the next MarketEvent on only EXITs for it,
\* up to MaxSignals of them
EntryChoices ==
    {SignalEvent(1, symbol_list[1], 0, t, 1) : t \in {"LONG", "SHORT"}}

ExitSeqs(n) ==
    {[i \in 1..k |-> SignalEvent(1, symbol_list[1], 0, "EXIT", 1)] : k \in 0..n}

DispatchMarketExits ==
    /\ MarketTaken
    /\ \E sigs \in IF signals = 0
                    THEN {<<>>} \cup {<<e>> : e \in EntryChoices}
                    ELSE ExitSeqs(MaxSignals + 1 - signals) :
          dispatch_market(sigs)

NextExits ==
    \/ Advance
    \/ Halt
    \/ DrainEmpty
    \/ DispatchMarketExits
    \/ DispatchSignal
    \/ DispatchOrder
    \/ DispatchFill
    \/ DispatchNone
    \/ OutputPerformance

SpecExits == Init /\ [][NextExits]_vars

\* ------------------------------------- the entry and exit scenario
\* a feed of ScenarioBars bars with equal closes, at one of a few price
\* levels, and a strategy that puts
\* a LONG for the first symbol when the second bar is the latest and it
\* has put nothing yet, and an EXIT when the third bar is the latest and
\* it has put the LONG
ScenarioCloses == {10000, 12500, 20000}

ScenarioFeeds ==
    {[s \in Symbols |-> [i \in 1..ScenarioBars |-> Bar(BarTime(i), close)]] :
        close \in ScenarioCloses}

InitScenario ==
    /\ pc = "advance"
    /\ events = <<>>
    /\ nextId = 1
    /\ signals = 0 /\ orders = 0 /\ fills = 0
    /\ symbol_data \in ScenarioFeeds
    /\ latest_symbol_data = [s \in Symbols |-> <<>>]
    /\ continue_backtest = TRUE
    /\ all_positions = construct_all_positions
    /\ current_positions = ZeroPerSymbol
    /\ all_holdings = construct_all_holdings
    /\ current_holdings = construct_current_holdings
    /\ equity_curve = <<>>
    /\ trace = <<>>
    /\ bought = calculate_initial_bought
    /\ long_market = FALSE
    /\ short_market = FALSE
    /\ args = <<>>
    /\ result = <<>>

ScenarioSignals(strength) ==
    LET symbol == symbol_list[1]
        bars == Len(latest_symbol_data[symbol])
    IN IF bars = 2 /\ signals = 0
       THEN << SignalEvent(1, symbol, BarTime(bars), "LONG", strength) >>
       ELSE IF bars = 3 /\ signals = 1
       THEN << SignalEvent(1, symbol, BarTime(bars), "EXIT", strength) >>
       ELSE << >>

DispatchMarketScenario ==
    /\ MarketTaken
    /\ \E strength \in Strengths : dispatch_market(ScenarioSignals(strength))

NextScenario ==
    \/ Advance
    \/ Halt
    \/ DrainEmpty
    \/ DispatchMarketScenario
    \/ DispatchSignal
    \/ DispatchOrder
    \/ DispatchFill
    \/ OutputPerformance

SpecScenario == InitScenario /\ [][NextScenario]_vars

\* ------------------------------------------ FillEvent called on its own
\* the quantity and the commission argument are chosen at the start; the
\* one step constructs the event
Quantities == 0..MaxQuantity

CommissionArgs == {{}} \cup {{c} : c \in ExplicitCommissions \cup {0}}

InitFillEvent ==
    /\ pc = "call"
    /\ args \in [quantity : Quantities, commission : CommissionArgs]
    /\ result = <<>>
    /\ events = <<>>
    /\ nextId = 1
    /\ signals = 0 /\ orders = 0 /\ fills = 0
    /\ symbol_data = [s \in Symbols |-> <<>>]
    /\ latest_symbol_data = [s \in Symbols |-> <<>>]
    /\ continue_backtest = TRUE
    /\ all_positions = construct_all_positions
    /\ current_positions = ZeroPerSymbol
    /\ all_holdings = construct_all_holdings
    /\ current_holdings = construct_current_holdings
    /\ equity_curve = <<>>
    /\ trace = <<>>
    /\ bought = calculate_initial_bought
    /\ long_market = FALSE
    /\ short_market = FALSE

ConstructFillEvent ==
    /\ pc = "call"
    /\ result' = FillEvent(0, symbol_list[1], "ARCA", args.quantity, "BUY", 0,
                           args.commission)
    /\ pc' = "returned"
    /\ UNCHANGED <<events, nextId, counters, feed, ledger, equity_curve, trace, args,
                   strategy>>

NextFillEvent == ConstructFillEvent

SpecFillEvent == InitFillEvent /\ [][NextFillEvent]_vars

\* ------------------------------------ create_drawdowns called on its own
\* the curve passed in starts with NaN, as create_equity_curve_dataframe
\* leaves it, or with 1.0, and goes on with values around 1.0
CurveValues == {Rat(99, 100), One, Rat(101, 100)}

Curves ==
    UNION {{<<first>> \o rest : first \in {NaN, One}, rest \in [1..k -> CurveValues]} :
              k \in 0..(MaxCurveLen - 1)}

InitDrawdowns ==
    /\ pc = "call"
    /\ args \in Curves
    /\ result = <<>>
    /\ events = <<>>
    /\ nextId = 1
    /\ signals = 0 /\ orders = 0 /\ fills = 0
    /\ symbol_data = [s \in Symbols |-> <<>>]
    /\ latest_symbol_data = [s \in Symbols |-> <<>>]
    /\ continue_backtest = TRUE
    /\ all_positions = construct_all_positions
    /\ current_positions = ZeroPerSymbol
    /\ all_holdings = construct_all_holdings
    /\ current_holdings = construct_current_holdings
    /\ equity_curve = <<>>
    /\ trace = <<>>
    /\ bought = calculate_initial_bought
    /\ long_market = FALSE
    /\ short_market = FALSE

CallCreateDrawdowns ==
    /\ pc = "call"
    /\ result' = create_drawdowns(args)
    /\ pc' = "returned"
    /\ UNCHANGED <<events, nextId, counters, feed, ledger, equity_curve, trace, args,
                   strategy>>

NextDrawdowns == CallCreateDrawdowns

SpecDrawdowns == InitDrawdowns /\ [][NextDrawdowns]_vars

\* ----------------------- calculate_xy_signals called with given z-scores
\* z-scores in tenths, on and around the thresholds, and hedge ratios
ZScores == {-30, -10, 0, 5, 30}
HedgeRatios == {1, 2}

InitPairs ==
    /\ pc = "call"
    /\ args = <<>>
    /\ result = <<>>
    /\ events = <<>>
    /\ nextId = 1
    /\ signals = 0 /\ orders = 0 /\ fills = 0
    /\ symbol_data = [s \in Symbols |-> <<>>]
    /\ latest_symbol_data = [s \in Symbols |-> <<>>]
    /\ continue_backtest = TRUE
    /\ all_positions = construct_all_positions
    /\ current_positions = ZeroPerSymbol
    /\ all_holdings = construct_all_holdings
    /\ current_holdings = construct_current_holdings
    /\ equity_curve = <<>>
    /\ trace = <<>>
    /\ bought = calculate_initial_bought
    /\ long_market = FALSE
    /\ short_market = FALSE

\* calculate_signals_for_pairs from the call of calculate_xy_signals on:
\* the z-score and the hedge ratio are what the regression gave; args
\* keeps the z-scores passed so far
CallCalculateXYSignals ==
    /\ pc \in {"call", "returned"}
    /\ Len(args) < MaxCalls
    /\ \E zscore_last \in ZScores, hr \in HedgeRatios :
          LET r == calculate_xy_signals(long_market, short_market, zscore_last, hr)
              put == r.y_signal # NoneEvent /\ r.x_signal # NoneEvent
          IN /\ long_market' = r.long_market
             /\ short_market' = r.short_market
             /\ result' = <<r.y_signal, r.x_signal>>
             /\ events' = IF put
                          THEN PutAll(events, <<r.y_signal, r.x_signal>>, nextId)
                          ELSE events
             /\ nextId' = IF put THEN nextId + 2 ELSE nextId
             /\ args' = Append(args, zscore_last)
    /\ pc' = "returned"
    /\ UNCHANGED <<counters, feed, ledger, equity_curve, trace, bought>>

NextPairs == CallCalculateXYSignals

SpecPairs == InitPairs /\ [][NextPairs]_vars

\* ------------------------------- the bar accessors called on their own
\* the handler has loaded the first m bars of a feed; the caller asks for
\* the last N of a symbol
InitLatestBars ==
    /\ pc = "call"
    /\ \E f \in Feeds : \E m \in 0..Len(f[symbol_list[1]]) :
          /\ symbol_data = [s \in Symbols |-> SubSeq(f[s], m + 1, Len(f[s]))]
          /\ latest_symbol_data = [s \in Symbols |-> SubSeq(f[s], 1, m)]
    /\ args \in [symbol : Symbols, val_type : {"close"}, N : 0..MaxCount]
    /\ result = <<>>
    /\ events = <<>>
    /\ nextId = 1
    /\ signals = 0 /\ orders = 0 /\ fills = 0
    /\ continue_backtest = TRUE
    /\ all_positions = construct_all_positions
    /\ current_positions = ZeroPerSymbol
    /\ all_holdings = construct_all_holdings
    /\ current_holdings = construct_current_holdings
    /\ equity_curve = <<>>
    /\ trace = <<>>
    /\ bought = calculate_initial_bought
    /\ long_market = FALSE
    /\ short_market = FALSE

CallGetLatestBars ==
    /\ pc = "call"
    /\ result' = [op |-> "get_latest_bars",
                  value |-> get_latest_bars(latest_symbol_data, args.symbol, args.N)]
    /\ pc' = "returned"
    /\ UNCHANGED <<events, nextId, counters, feed, ledger, equity_curve, trace, args,
                   strategy>>

CallGetLatestBarsValues ==
    /\ pc = "call"
    /\ result' = [op |-> "get_latest_bars_values",
                  value |-> get_latest_bars_values(latest_symbol_data, args.symbol,
                                                   args.val_type, args.N)]
    /\ pc' = "returned"
    /\ UNCHANGED <<events, nextId, counters, feed, ledger, equity_curve, trace, args,
                   strategy>>

NextLatestBars ==
    \/ CallGetLatestBars
    \/ CallGetLatestBarsValues

SpecLatestBars == InitLatestBars /\ [][NextLatestBars]_vars

\* ============================================================== claims
LatestClose(symbol) ==
    latest_symbol_data[symbol][Len(latest_symbol_data[symbol])].close

IsDispatch(c) == c.op # "update_bars"

TraceCount(op) == Cardinality({i \in DOMAIN trace : trace[i].op = op})

\* the step about to be taken handles the item at the head of the queue
Dispatching(type) == pc = "drain" /\ events # <<>> /\ Head(events).type = type

\* the calls made for dispatched events, in order
DispatchLog == SelectSeq(trace, IsDispatch)

\* C1: the items of the queue are dispatched in exactly the order of their
\* puts: from one call to the next the put number of the event handled
\* never decreases (and stays the same only from the calculate_signals to
\* the update_timeindex of one MarketEvent), every item still queued was
\* put after the item handled last, and the queue holds its items in put
\* order.
C1_FifoDispatch ==
    LET log == DispatchLog
        n == Len(log)
    IN /\ \A i \in 1..(n - 1) :
             /\ log[i].id <= log[i + 1].id
             /\ log[i].id = log[i + 1].id
                   => /\ log[i].op = "calculate_signals"
                      /\ log[i + 1].op = "update_timeindex"
       /\ \A k \in DOMAIN events :
             /\ n > 0 => log[n].id < events[k].id
             /\ k + 1 \in DOMAIN events => events[k].id < events[k + 1].id

\* two signals of one bar are both handled before the order of the first
C1_Witness ==
    \E i \in DOMAIN trace :
        /\ i + 2 \in DOMAIN trace
        /\ trace[i].op = "update_signal"
        /\ trace[i + 1].op = "update_signal"
        /\ trace[i + 2].op = "execute_order"
        /\ trace[i + 2].id = trace[i + 1].id + 1

\* C2: the queue is empty every time Advance runs, so every signal of a
\* bar and the order and fill it leads to are dispatched before the next
\* update_bars, and the queue never holds more than one MarketEvent.
C2_DrainedBeforeAdvance ==
    /\ pc = "advance" => events = <<>>
    /\ Cardinality({k \in DOMAIN events : events[k].type = "MARKET"}) <= 1
    /\ (trace # <<>> /\ trace[Len(trace)].op = "update_bars")
          => (Len(events) = 1 /\ events[1].type = "MARKET")

\* back at Advance with more bars to come, after a whole signal, order,
\* fill chain was dispatched
C2_Witness ==
    /\ pc = "advance"
    /\ continue_backtest
    /\ fills >= 1
    /\ Len(all_holdings) = 2

\* C3: each MarketEvent gets calculate_signals and then update_timeindex,
\* once each, and a SignalEvent is handled only after the update_timeindex
\* of the MarketEvent whose calculate_signals put it.
C3_SignalsBeforeMark ==
    LET marks == {i \in DOMAIN trace : trace[i].op = "update_timeindex"}
        calcs == {i \in DOMAIN trace : trace[i].op = "calculate_signals"}
    IN /\ \A i \in calcs :
             /\ i + 1 \in DOMAIN trace
             /\ trace[i + 1] = [op |-> "update_timeindex", id |-> trace[i].id]
       /\ \A i \in marks :
             /\ i - 1 \in DOMAIN trace
             /\ trace[i - 1] = [op |-> "calculate_signals", id |-> trace[i].id]
       /\ Cardinality({trace[i].id : i \in marks}) = Cardinality(marks)
       /\ \A j \in DOMAIN trace :
             trace[j].op = "update_signal"
                => \E i \in marks : i < j /\ trace[i].id < trace[j].id
       /\ \A k \in DOMAIN events :
             events[k].type = "SIGNAL"
                => \E i \in marks : trace[i].id < events[k].id

\* a signal put by the second bar's MarketEvent has been handled
C3_Witness ==
    /\ TraceCount("update_timeindex") = 2
    /\ trace[Len(trace)].op = "update_signal"
    /\ trace[Len(trace) - 1].op = "update_timeindex"

\* the MarketEvents whose handling ran to its end: a run aborted by
\* update_timeindex stopped inside the last call
MarketsProcessed ==
    TraceCount("update_timeindex") - (IF pc = "aborted" THEN 1 ELSE 0)

\* C4: after k MarketEvents the two histories hold k+1 entries each, the
\* first being the seed at start_date (no positions, cash = total = initial
\* capital, no commission), and they agree on the datetime at every index.
C4_HistoryLengths ==
    /\ Len(all_positions) = MarketsProcessed + 1
    /\ Len(all_holdings) = MarketsProcessed + 1
    /\ all_positions[1] = [datetime |-> StartDate, pos |-> [s \in Symbols |-> 0]]
    /\ all_holdings[1].datetime = StartDate
    /\ all_holdings[1].cash = InitialCapital
    /\ all_holdings[1].total = InitialCapital
    /\ all_holdings[1].commission = 0
    /\ \A i \in DOMAIN all_positions :
          i \in DOMAIN all_holdings
             /\ all_positions[i].datetime = all_holdings[i].datetime

C4_Witness ==
    /\ MarketsProcessed = 3
    /\ Len(all_holdings) = 4
    /\ all_positions[4].pos # all_positions[1].pos

\* C5: with strictly increasing bar datetimes and start_date before the
\* first bar, the datetimes of both histories are strictly increasing over
\* the whole run, the last cycle included.
C5_StrictlyIncreasingTimestamps ==
    /\ \A i \in DOMAIN all_holdings :
          i + 1 \in DOMAIN all_holdings
             => all_holdings[i].datetime < all_holdings[i + 1].datetime
    /\ \A i \in DOMAIN all_positions :
          i + 1 \in DOMAIN all_positions
             => all_positions[i].datetime < all_positions[i + 1].datetime

\* C6: applying a fill changes the cash by exactly -(signed notional +
\* commission), the notional being sign * latest close of the fill's symbol
\* * quantity whatever the fill's own fill_cost says, and adds exactly the
\* fill's commission to the cumulative commission.
C6_CashConservation ==
    [][Dispatching("FILL") =>
         LET fill == Head(events)
             direction_sign == IF fill.direction = "BUY" THEN 1 ELSE -1
             signed_notional ==
                 direction_sign * LatestClose(fill.symbol) * fill.quantity
         IN /\ fill.direction \in {"BUY", "SELL"}
            /\ current_holdings'.cash - current_holdings.cash
                  = -(signed_notional + fill.commission)
            /\ current_holdings'.commission
                  = current_holdings.commission + fill.commission]_vars

\* a sale of 100 at the second bar's close of 12.00 with an explicit
\* commission of 2.50 has been applied
C6_Witness ==
    /\ trace # <<>>
    /\ trace[Len(trace)].op = "update_fill"
    /\ fills = 1
    /\ current_positions[symbol_list[1]] = -100
    /\ LatestClose(symbol_list[1]) = 12000
    /\ current_holdings.cash = InitialCapital + 12000 * 100 - 2500
    /\ current_holdings.commission = 2500

\* C7: a step that does not apply a FillEvent (the handling of a
\* MarketEvent, a SignalEvent or an OrderEvent, and every step of the outer
\* loop) leaves the current cash, commission and positions as they were.
C7_LedgerChangesOnlyOnFill ==
    [][~Dispatching("FILL") =>
         /\ current_holdings'.cash = current_holdings.cash
         /\ current_holdings'.commission = current_holdings.commission
         /\ current_positions' = current_positions]_vars

\* a bar was marked while a position was open and cash had been spent
C7_Witness ==
    /\ trace # <<>>
    /\ trace[Len(trace)].op = "update_timeindex"
    /\ pc = "drain"
    /\ current_positions[symbol_list[1]] = 100
    /\ current_holdings.cash < InitialCapital
    /\ all_holdings[Len(all_holdings)].total # current_holdings.cash

\* C8: applying a fill for symbol s with quantity q adds q to position[s]
\* for a BUY and subtracts q for a SELL, and changes no other position.
C8_PositionDelta ==
    [][Dispatching("FILL") =>
         LET fill == Head(events)
         IN /\ fill.direction = "BUY"
                 => current_positions'[fill.symbol]
                       = current_positions[fill.symbol] + fill.quantity
            /\ fill.direction = "SELL"
                 => current_positions'[fill.symbol]
                       = current_positions[fill.symbol] - fill.quantity
            /\ \A s \in Symbols \ {fill.symbol} :
                  current_positions'[s] = current_positions[s]]_vars

\* two fills in: a short in the second symbol beside a long in the first
C8_Witness ==
    /\ trace # <<>>
    /\ trace[Len(trace)].op = "update_fill"
    /\ fills = 2
    /\ current_positions[symbol_list[2]] = -100
    /\ current_positions[symbol_list[1]] = 100
    /\ current_holdings.val[symbol_list[2]] < 0

RECURSIVE SetSum(_, _)
SetSum(S, f) ==
    IF S = {} THEN 0
    ELSE LET x == CHOOSE y \in S : TRUE IN f[x] + SetSum(S \ {x}, f)

\* the close of the bar of symbol that carries datetime t
CloseAt(symbol, t) ==
    LET bars == latest_symbol_data[symbol]
        i == CHOOSE j \in DOMAIN bars : bars[j].datetime = t
    IN bars[i].close

Last(seq) == seq[Len(seq)]

\* C9: every snapshot appended for a bar has total = cash + the sum over
\* the symbols of P[s] * close(s, bar), P being the positions the Positions
\* snapshot of the same call records: the positions held when the bar
\* arrived, the MarketEvent being the first item handled after update_bars.
\* The fills of the bar's own signals change no snapshot already appended
\* and show first in the snapshots of the next MarketEvent.
C9_Valuation ==
    /\ [](\A k \in DOMAIN all_holdings :
             k >= 2 =>
                /\ k \in DOMAIN all_positions
                /\ all_holdings[k].total
                      = all_holdings[k].cash
                        + SetSum(Symbols,
                                 [s \in Symbols |->
                                     all_positions[k].pos[s]
                                       * CloseAt(s, all_holdings[k].datetime)]))
    /\ [](Dispatching("MARKET") => Last(trace).op = "update_bars")
    /\ [][(Dispatching("MARKET") /\ pc' # "aborted") =>
             /\ Len(all_positions') = Len(all_positions) + 1
             /\ Len(all_holdings') = Len(all_holdings) + 1
             /\ Last(all_positions').pos = current_positions
             /\ Last(all_holdings').cash = current_holdings.cash]_vars
    /\ [][Dispatching("FILL") =>
             /\ all_positions' = all_positions
             /\ all_holdings' = all_holdings]_vars

\* the long opened by a signal of the first bar is absent from the first
\* bar's snapshots and valued at the second bar's close in the second's
C9_Witness ==
    /\ Len(all_holdings) = 3
    /\ all_positions[2].pos[symbol_list[1]] = 0
    /\ all_positions[3].pos[symbol_list[1]] = 100
    /\ all_holdings[2].datetime < all_holdings[3].datetime
    /\ CloseAt(symbol_list[1], all_holdings[2].datetime) = 11000
    /\ CloseAt(symbol_list[1], all_holdings[3].datetime) = 12000
    /\ all_holdings[3].total = all_holdings[3].cash + 100 * 12000

\* C10: update_signal puts an order exactly when the signal is LONG or
\* SHORT on a flat symbol (BUY, SELL of 100) or EXIT on an open position
\* (SELL of a long, BUY of a short, for its whole size); the order is a
\* market order for at least one share, whatever the signal's strength.
C10_NaiveSizer ==
    [][Dispatching("SIGNAL") =>
         LET signal == Head(events)
             cur == current_positions[signal.symbol]
             put == Last(events')
             IsOrder(direction, quantity) ==
                 /\ put.type = "ORDER"
                 /\ put.symbol = signal.symbol
                 /\ put.order_type = "MKT"
                 /\ put.direction = direction
                 /\ put.quantity = quantity
         IN /\ Len(events') = Len(events)
            /\ (signal.signal_type = "LONG" /\ cur = 0) => IsOrder("BUY", 100)
            /\ (signal.signal_type = "SHORT" /\ cur = 0) => IsOrder("SELL", 100)
            /\ (signal.signal_type = "EXIT" /\ cur > 0) => IsOrder("SELL", cur)
            /\ (signal.signal_type = "EXIT" /\ cur < 0) => IsOrder("BUY", -cur)
            /\ (signal.signal_type \in {"LONG", "SHORT"} /\ cur # 0)
                  => put.type # "ORDER"
            /\ (signal.signal_type = "EXIT" /\ cur = 0) => put.type # "ORDER"
            /\ put.type = "ORDER" => (put.order_type = "MKT" /\ put.quantity >= 1)]_vars

\* an EXIT on a short of 100 gave a BUY of 100
C10_Witness ==
    /\ trace # <<>>
    /\ trace[Len(trace)].op = "update_signal"
    /\ signals = 2
    /\ events # <<>>
    /\ Last(events).type = "ORDER"
    /\ Last(events).direction = "BUY"
    /\ Last(events).quantity = 100
    /\ current_positions[Last(events).symbol] = -100

\* C11: when every signal of the run is a LONG for one symbol that starts
\* flat, the signals make one OrderEvent in total wherever the strategy
\* places them, two of them put for the same MarketEvent included: the
\* orders dispatched and the orders still queued never add up to more than
\* one.
C11_LongIdempotent ==
    orders + Cardinality({k \in DOMAIN events : events[k].type = "ORDER"}) <= 1

\* the signal asks for what the sizer does not do from the position held
ViolatesSizer(signal) ==
    LET cur == current_positions[signal.symbol]
    IN \/ signal.signal_type \in {"LONG", "SHORT"} /\ cur # 0
       \/ signal.signal_type = "EXIT" /\ cur = 0

\* C12: a LONG or SHORT on an open position and an EXIT on a flat one are
\* dropped without an error: handling the signal puts a None and no order,
\* leaves the order and fill counters, the cash, the commission and the
\* positions as they were and the loop goes on; the None is later taken
\* from the queue and passed over with no handler called and nothing put.
C12_SilentDrop ==
    /\ [][(Dispatching("SIGNAL") /\ ViolatesSizer(Head(events))) =>
             /\ events' = Append(Tail(events), [NoneEvent EXCEPT !.id = nextId])
             /\ orders' = orders
             /\ fills' = fills
             /\ current_holdings' = current_holdings
             /\ current_positions' = current_positions
             /\ pc' = "drain"]_vars
    /\ [][Dispatching("NONE") =>
             /\ events' = Tail(events)
             /\ nextId' = nextId
             /\ trace' = trace
             /\ orders' = orders
             /\ fills' = fills
             /\ current_holdings' = current_holdings
             /\ current_positions' = current_positions
             /\ pc' = "drain"]_vars

\* the second bar's signal found the position of the first bar's LONG or
\* SHORT open, was dropped, and the None it left has been passed over
C12_Witness ==
    /\ trace # <<>>
    /\ Last(trace).op = "update_signal"
    /\ signals = 2
    /\ orders = 1
    /\ fills = 1
    /\ events = <<>>
    /\ pc = "drain"
    /\ TraceCount("update_timeindex") = 2

\* C13: taking from the queue an event whose type is none of MARKET,
\* SIGNAL, ORDER and FILL aborts the run at that event: no later event is
\* dispatched.
C13_UnknownTypeIsFatal ==
    [][(pc = "drain" /\ events # <<>>
          /\ Head(events).type \notin {"NONE", "MARKET", "SIGNAL", "ORDER", "FILL"})
         => pc' = "aborted"]_vars

\* C14: when a handler raises while an event is dispatched
\* (update_timeindex does for a MarketEvent that finds no bar loaded) the
\* run aborts: from then on nothing changes, so the event is not dispatched
\* again, the events behind it stay undispatched, update_bars is not called
\* again and the equity curve is never created.
C14_RaiseAborts ==
    /\ [][(Dispatching("MARKET") /\ latest_symbol_data[symbol_list[1]] = <<>>)
             => pc' = "aborted"]_vars
    /\ [][pc = "aborted" => UNCHANGED vars]_vars
    /\ [](pc = "aborted" =>
             /\ equity_curve = <<>>
             /\ \A k \in DOMAIN events : events[k].id > Last(trace).id)

\* aborted in update_timeindex with the signals that the calculate_signals
\* before it had put still on the queue
C14_Witness ==
    /\ pc = "aborted"
    /\ Last(trace).op = "update_timeindex"
    /\ Len(events) = 2
    /\ signals = 0

\* C15: the loop has halted only with the feed exhausted (continue_backtest
\* is off and an iterator has run out) and the queue empty, and the equity
\* curve is created only after the loop has halted, with no event left
\* undispatched.
C15_HaltOnlyWhenExhaustedAndEmpty ==
    /\ pc \in {"halted", "reported"} =>
          /\ ~continue_backtest
          /\ \E s \in Symbols : symbol_data[s] = <<>>
          /\ events = <<>>
    /\ equity_curve # <<>> => pc = "reported"
    /\ pc = "reported" => Len(equity_curve) = Len(all_holdings)

\* the report of a run over two bars in which a fill was applied
C15_Witness ==
    /\ pc = "reported"
    /\ fills >= 1
    /\ Len(latest_symbol_data[symbol_list[1]]) = 2
    /\ Len(equity_curve) = 4

\* C16: running out of bars is not an error: whatever the number of bars
\* of the feed, none included, and whatever signals the strategy puts, no
\* handler raises, so the run is never aborted on its way to the halt.
C16_ExhaustionIsNormal ==
    pc # "aborted"

IsChainCall(c) == c.op \in {"update_signal", "execute_order", "update_fill"}

\* C17: in the scenario (equal closes, LONG on the second bar, EXIT on the
\* third, every order filled in full) the run ends with 2 signals, 2 orders
\* and 2 fills counted, handled as one signal, order, fill chain for the
\* entry and one for the exit, with no position left and with the cash at
\* the initial capital less the commissions of the two fills.
C17_EntryExitScenario ==
    /\ [](pc \in {"halted", "reported"} =>
             /\ signals = 2 /\ orders = 2 /\ fills = 2
             /\ LET chain == SelectSeq(trace, IsChainCall)
                IN [i \in DOMAIN chain |-> chain[i].op]
                      = << "update_signal", "execute_order", "update_fill",
                           "update_signal", "execute_order", "update_fill" >>
             /\ \A s \in Symbols : current_positions[s] = 0
             /\ current_holdings.cash = InitialCapital - current_holdings.commission)
    /\ [][Dispatching("FILL") =>
             current_holdings'.commission
                = current_holdings.commission + Head(events).commission]_vars

\* the scenario has run to its report: the entry paid the default
\* commission of 1.00 and the exit an explicit one of 2.50, or the reverse
C17_Witness ==
    /\ pc = "reported"
    /\ fills = 2
    /\ current_holdings.commission = 3500
    /\ current_holdings.cash = InitialCapital - 3500
    /\ Len(all_holdings) = ScenarioBars + 2

\* C18: a FillEvent constructed with no commission given has the
\* commission max(0.005 * quantity, 1.00), which is the minimum of 1.00 for
\* every quantity up to 200, and one constructed with a commission given
\* keeps the given value, 0 included.
C18_CommissionDefault ==
    pc = "returned" =>
        /\ args.commission = {} =>
               LET per_share == args.quantity * 5
               IN /\ result.commission = IF per_share >= 1000 THEN per_share ELSE 1000
                  /\ args.quantity <= 200 => result.commission = 1000
        /\ \A c \in args.commission : result.commission = c
        /\ result.quantity = args.quantity

\* the first quantity above the minimum: 201 shares cost 1.005
C18_Witness ==
    /\ pc = "returned"
    /\ args = [quantity |-> 201, commission |-> {}]
    /\ result.commission = 1005

\* C19 as stated: with no commission given, a quantity of 50 gives a
\* commission of 1.25, a quantity of 100 gives 1.00 and a quantity of 300
\* gives 1.50.
C19_CommissionValuesAsStated ==
    (pc = "returned" /\ args.commission = {}) =>
        /\ args.quantity = 50 => result.commission = 1250
        /\ args.quantity = 100 => result.commission = 1000
        /\ args.quantity = 300 => result.commission = 1500

\* C19 amended: with no commission given, a quantity of 50 gives a
\* commission of 1.00 (the minimum, 50 * 0.005 being 0.25), a quantity of
\* 100 gives 1.00 and a quantity of 300 gives 1.50.
C19_CommissionValues ==
    (pc = "returned" /\ args.commission = {}) =>
        /\ args.quantity = 50 => result.commission = 1000
        /\ args.quantity = 100 => result.commission = 1000
        /\ args.quantity = 300 => result.commission = 1500

C19_Witness ==
    /\ pc = "returned"
    /\ args = [quantity |-> 50, commission |-> {}]
    /\ result.type = "FILL"
    /\ result.commission = MinCommission

\* C20: create_equity_curve_dataframe gives an equity curve whose first
\* entry, for the seed snapshot, is 1.0 and whose entry at every later index
\* t is the running product of the 1 + return(i), which is
\* total(t) / total(t0).
C20_EquityCurve ==
    pc = "reported" =>
        /\ Len(equity_curve) = Len(all_holdings)
        /\ equity_curve[1].equity_curve = One
        /\ \A t \in 2..Len(equity_curve) :
              equity_curve[t].equity_curve
                 = Rat(all_holdings[t].total, all_holdings[1].total)

\* the largest of pnl[1..t], the base value at t0 included
RECURSIVE RunningMax(_, _)
RunningMax(pnl, t) ==
    IF t = 1 THEN pnl[1]
    ELSE LET m == RunningMax(pnl, t - 1)
         IN IF RatLess(m, pnl[t]) THEN pnl[t] ELSE m

\* C21: the drawdown at every index is the high-water mark, the largest
\* value of the equity curve so far with the base value at t0 included,
\* less the curve; the duration counts the consecutive indexes with a
\* drawdown other than 0; the first entry of both is 0, no drawdown is
\* negative, and a curve that is below its base value on the first bar has
\* a drawdown above 0 there.
C21_Drawdowns ==
    pc = "returned" =>
        /\ result.drawdown[1] = Zero
        /\ result.duration[1] = Zero
        /\ \A t \in DOMAIN args :
              /\ result.drawdown[t] = RatSub(RunningMax(args, t), args[t])
              /\ ~RatLess(result.drawdown[t], Zero)
              /\ t > 1 =>
                    result.duration[t]
                       = IF result.drawdown[t] = Zero THEN Zero
                         ELSE RatAdd(result.duration[t - 1], One)
        /\ (Len(args) >= 2 /\ RatLess(args[2], args[1]))
              => RatLess(Zero, result.drawdown[2])

IsPrefix(a, b) == Len(a) <= Len(b) /\ SubSeq(b, 1, Len(a)) = a

\* C22: the two histories only grow at the end: over every step, whatever
\* is handled, each history as it was is a prefix of the history as it
\* is, so no snapshot changes in any field once it is appended.
C22_AppendOnly ==
    [][/\ IsPrefix(all_positions, all_positions')
       /\ IsPrefix(all_holdings, all_holdings')]_vars

\* the trailing MarketEvent has marked the last bar again after a fill
\* changed the position: two snapshots with one datetime that differ
C22_Witness ==
    /\ Len(all_positions) >= 3
    /\ LET n == Len(all_positions)
       IN /\ all_positions[n].datetime = all_positions[n - 1].datetime
          /\ all_positions[n].pos # all_positions[n - 1].pos
          /\ all_holdings[n].cash # all_holdings[n - 1].cash
    /\ pc = "reported"

\* C23: the three counters are the numbers of SignalEvents, OrderEvents
\* and FillEvents dispatched so far (the handling of a MarketEvent counts
\* nothing), so fills <= orders <= signals throughout, and with one
\* FillEvent put per order fills = orders once the loop has halted.
C23_Counters ==
    /\ signals = TraceCount("update_signal")
    /\ orders = TraceCount("execute_order")
    /\ fills = TraceCount("update_fill")
    /\ fills <= orders
    /\ orders <= signals
    /\ pc \in {"halted", "reported"} => fills = orders

\* halted with a dropped signal behind: more signals than orders
C23_Witness ==
    /\ pc = "halted"
    /\ signals = 2
    /\ orders = 1
    /\ fills = 1
    /\ TraceCount("calculate_signals") = 3

\* C24: every MarketEvent dispatched stands for a new bar of every symbol:
\* in a run that no handler has aborted, no more MarketEvents have been
\* dispatched than bars have been loaded for any symbol, and a run that
\* has halted over a feed of N bars has dispatched N MarketEvents.
C24_OneMarketEventPerBar ==
    /\ pc # "aborted" =>
          \A s \in Symbols : TraceCount("calculate_signals") <= Len(latest_symbol_data[s])
    /\ pc \in {"halted", "reported"} =>
          \A s \in Symbols : TraceCount("calculate_signals") = Len(latest_symbol_data[s])

\* C25: every item on the queue is a MarketEvent, a SignalEvent, an
\* OrderEvent or a FillEvent; a signal that makes no order leaves nothing
\* on the queue.
C25_OnlyEventsQueued ==
    \A k \in DOMAIN events : events[k].type \in {"MARKET", "SIGNAL", "ORDER", "FILL"}

\* C26: when the only signals for a symbol after its entry are EXITs, the
\* pass of the inner loop in which the first of them is handled ends with
\* the position closed, however many EXITs that pass handled, and later
\* EXITs find nothing to close: at the end of every pass after an EXIT was
\* handled the position is 0.
C26_ExitCloses ==
    (pc = "advance" /\ signals >= 2) => current_positions[symbol_list[1]] = 0

\* C27: with the naive sizer and an execution handler that fills every
\* order in full, every symbol's position is -100, 0 or +100 in every
\* reachable state, whatever signals the strategy puts.
C27_PositionBounded ==
    \A s \in Symbols : current_positions[s] \in {-100, 0, 100}

\* every bar of a symbol, loaded or still to come, has the same close
ConstantPrices ==
    \A s \in Symbols :
        LET bars == latest_symbol_data[s] \o symbol_data[s]
        IN \A i, j \in DOMAIN bars : bars[i].close = bars[j].close

\* C28: when the close of every symbol is the same on every bar, every
\* holdings snapshot appended by update_timeindex has
\* total = initial_capital - its cumulative commission, whatever was
\* signalled and filled.
C28_EquityConserved ==
    ConstantPrices =>
        \A k \in DOMAIN all_holdings :
            k >= 2 =>
                all_holdings[k].total = InitialCapital - all_holdings[k].commission

\* a snapshot taken with commission paid and a short position open
C28_Witness ==
    /\ ConstantPrices
    /\ \E k \in DOMAIN all_holdings :
          /\ k >= 2
          /\ all_holdings[k].commission > 0
          /\ \E s \in Symbols : all_holdings[k].val[s] < 0
          /\ all_holdings[k].cash > InitialCapital
          /\ all_holdings[k].total = InitialCapital - all_holdings[k].commission

\* C29: the total of the running holdings is the account's equity, cash
\* plus the open positions: after any sequence of fills
\* current_holdings.total = current_holdings.cash + the sum over the
\* symbols of current_holdings[symbol].
C29_RunningTotalIsEquity ==
    current_holdings.total
        = current_holdings.cash + SetSum(Symbols, current_holdings.val)

\* C30: dispatching a FillEvent whose direction is neither BUY nor SELL
\* aborts the run and leaves the ledger as it was: cash, cumulative
\* commission and every position are unchanged.
C30_MalformedFillFatal ==
    [][(Dispatching("FILL") /\ Head(events).direction \notin {"BUY", "SELL"}) =>
          /\ pc' = "aborted"
          /\ current_holdings' = current_holdings
          /\ current_positions' = current_positions]_vars

Min(a, b) == IF a < b THEN a ELSE b

\* C31: with m bars of a symbol loaded, get_latest_bars(symbol, N) and
\* get_latest_bars_values(symbol, field, N) return exactly the min(N, m)
\* most recent bars (values), oldest first, for every N >= 0, and a
\* shorter sequence when fewer than N are loaded.
C31_LatestBars ==
    pc = "returned" =>
        LET bars == latest_symbol_data[args.symbol]
            m == Len(bars)
            k == Min(args.N, m)
            recent == [i \in 1..k |-> bars[m - k + i]]
        IN IF result.op = "get_latest_bars"
           THEN result.value = recent
           ELSE result.value = [i \in 1..k |-> recent[i][args.val_type]]

\* C32: calculate_signals of MovingAverageCrossStrategy puts no SignalEvent
\* for a symbol while fewer than long_window bars of it are loaded.
C32_NoSignalUnderSupply ==
    \A i \in DOMAIN events :
        events[i].type = "SIGNAL" =>
            Len(latest_symbol_data[events[i].symbol]) >= long_window

\* the SignalEvents a step puts: the items of the queue as it is with a
\* put number the queue as it was had not reached
NewSignals ==
    {events'[i] : i \in {j \in DOMAIN events' :
                            events'[j].id >= nextId /\ events'[j].type = "SIGNAL"}}

\* C33: with MovingAverageCrossStrategy, the naive sizer and an execution
\* handler that fills every order in full, the signals of a symbol
\* alternate LONG, EXIT, LONG, ... from a LONG on: a step puts at most one
\* signal per symbol, a LONG only on a flat symbol and an EXIT only on a
\* position of 100, and the pass it starts ends with the position moved to
\* the other of the two; every signal gives an order, so no None is ever
\* on the queue and the pass ends with as many orders and fills as
\* signals; and at every Advance bought[s] is LONG exactly when the
\* position of s is 100 and OUT exactly when it is 0.
C33_MacAlternates ==
    /\ [][\A e \in NewSignals :
             /\ e.signal_type \in {"LONG", "EXIT"}
             /\ e.signal_type = "LONG" => current_positions[e.symbol] = 0
             /\ e.signal_type = "EXIT" => current_positions[e.symbol] = 100
             /\ \A f \in NewSignals : f.symbol = e.symbol => f = e]_vars
    /\ [](\A i \in DOMAIN events : events[i].type # "NONE")
    /\ [](pc = "advance" =>
             /\ orders = signals
             /\ fills = orders
             /\ \A s \in Symbols :
                   /\ current_positions[s] \in {0, 100}
                   /\ bought[s] = "LONG" <=> current_positions[s] = 100
                   /\ bought[s] = "OUT" <=> current_positions[s] = 0)

\* the first symbol went long, out and long again
C33_Witness ==
    /\ pc = "advance"
    /\ bought[symbol_list[1]] = "LONG"
    /\ current_positions[symbol_list[1]] = 100
    /\ \E i, j \in DOMAIN all_positions :
          /\ i < j
          /\ all_positions[i].pos[symbol_list[1]] = 100
          /\ all_positions[j].pos[symbol_list[1]] = 0
    /\ fills >= 3

\* C34: whatever z-scores calculate_xy_signals is called with, long_market
\* and short_market are never both true, and every call returns either no
\* signal at all or one signal for each symbol of the pair, the first
\* symbol's put on the queue before the second's.
C34_PairFlags ==
    /\ ~(long_market /\ short_market)
    /\ pc = "returned" =>
          \/ result = <<NoneEvent, NoneEvent>>
          \/ /\ result[1].type = "SIGNAL" /\ result[1].symbol = pair[1]
             /\ result[2].type = "SIGNAL" /\ result[2].symbol = pair[2]
             /\ Len(events) >= 2
             /\ [events[Len(events) - 1] EXCEPT !.id = 0] = result[1]
             /\ [events[Len(events)] EXCEPT !.id = 0] = result[2]

====
